---- MODULE Spec2Model ----
\* Options market maker (options_quoter.py, libs.py): the quoting routine
\* update_quotes, the hedging routines hedge_delta_position and
\* hedge_gamma_position, and the trade loop that sequences them against an
\* order-driven venue.  The venue (order book, positions, resting orders,
\* fills) and the Black-Scholes library are the environment.
EXTENDS Integers, Sequences, FiniteSets, TLC

\* ---------------------------------------------------------------------
\* Natural numbers of arbitrary size: little-endian sequences of limbs in
\* 0..Base-1 without leading zero limbs (zero is <<>>).  They carry the
\* 53-bit significands of Python floats, which exceed the native integers.
Powers == <<1, 2, 4, 8, 16, 32, 64, 128, 256, 512, 1024, 2048, 4096, 8192, 16384, 32768>>

Pow2(k) == Powers[k + 1]

Base == Pow2(15)

Min(a, b) == IF a < b THEN a ELSE b

RECURSIVE BNorm(_)
BNorm(a) == IF a = <<>> THEN a
            ELSE IF a[Len(a)] = 0 THEN BNorm(SubSeq(a, 1, Len(a) - 1)) ELSE a

RECURSIVE BFromInt(_)
BFromInt(n) == IF n = 0 THEN <<>> ELSE <<n % Base>> \o BFromInt(n \div Base)

RECURSIVE BToInt(_)
BToInt(a) == IF a = <<>> THEN 0 ELSE a[1] + Base * BToInt(Tail(a))

Limb(a, i) == IF i <= Len(a) THEN a[i] ELSE 0

\* a + b + c from limb i on, s the sum at limb i
RECURSIVE BAddC(_, _, _, _)
BAddC(a, b, i, s) ==
    IF i > Len(a) /\ i > Len(b)
    THEN (IF s = 0 THEN <<>> ELSE <<s>>)
    ELSE <<s % Base>> \o BAddC(a, b, i + 1, Limb(a, i + 1) + Limb(b, i + 1) + (s \div Base))

BAdd(a, b) == BAddC(a, b, 1, Limb(a, 1) + Limb(b, 1))

\* a - b from limb i on, s the difference at limb i
RECURSIVE BSubC(_, _, _, _)
BSubC(a, b, i, s) ==
    IF i > Len(a) THEN <<>>
    ELSE IF s < 0 THEN <<s + Base>> \o BSubC(a, b, i + 1, Limb(a, i + 1) - Limb(b, i + 1) - 1)
    ELSE <<s>> \o BSubC(a, b, i + 1, Limb(a, i + 1) - Limb(b, i + 1))

\* a - b for a >= b
BSub(a, b) == BNorm(BSubC(a, b, 1, Limb(a, 1) - Limb(b, 1)))

RECURSIVE BCmpAt(_, _, _)
BCmpAt(a, b, i) == IF i = 0 THEN 0
                   ELSE IF a[i] < b[i] THEN -1
                   ELSE IF a[i] > b[i] THEN 1
                   ELSE BCmpAt(a, b, i - 1)

\* -1, 0, 1 as a < b, a = b, a > b
BCmp(a, b) == IF Len(a) < Len(b) THEN -1
              ELSE IF Len(a) > Len(b) THEN 1
              ELSE BCmpAt(a, b, Len(a))

\* a * m + c from limb i on
RECURSIVE BMulSmallC(_, _, _, _)
BMulSmallC(a, m, i, c) ==
    IF i > Len(a) THEN (IF c = 0 THEN <<>> ELSE <<c>>)
    ELSE <<(a[i] * m + c) % Base>> \o BMulSmallC(a, m, i + 1, (a[i] * m + c) \div Base)

\* a * m for 0 <= m <= Base
BMulSmall(a, m) == IF m = 0 THEN <<>> ELSE BMulSmallC(a, m, 1, 0)

\* a \div m from limb i down, r the remainder carried in
RECURSIVE BDivSmallC(_, _, _, _)
BDivSmallC(a, m, i, r) ==
    IF i = 0 THEN <<>>
    ELSE BDivSmallC(a, m, i - 1, (r * Base + a[i]) % m) \o <<(r * Base + a[i]) \div m>>

\* a \div m for 1 <= m <= Base
BDivSmall(a, m) == BNorm(BDivSmallC(a, m, Len(a), 0))

Zeros(n) == [i \in 1..n |-> 0]

\* a * 2^k
BShl(a, k) == IF a = <<>> THEN a ELSE Zeros(k \div 15) \o BMulSmall(a, Pow2(k % 15))

\* a \div 2^k
BShr(a, k) == IF k \div 15 >= Len(a) THEN <<>>
              ELSE BDivSmall(SubSeq(a, (k \div 15) + 1, Len(a)), Pow2(k % 15))

\* number of bits of a limb
BitsOfLimb(x) == CHOOSE k \in 0..15 : x < Pow2(k) /\ (k = 0 \/ x >= Pow2(k - 1))

\* number of bits of a
BBits(a) == IF a = <<>> THEN 0 ELSE 15 * (Len(a) - 1) + BitsOfLimb(a[Len(a)])

\* bit k of a
BBit(a, k) == (Limb(a, (k \div 15) + 1) \div Pow2(k % 15)) % 2

BOdd(a) == a # <<>> /\ a[1] % 2 = 1

RECURSIVE BMulAt(_, _, _)
BMulAt(a, b, i) ==
    IF i > Len(b) THEN <<>>
    ELSE BAdd(Zeros(i - 1) \o BMulSmall(a, b[i]), BMulAt(a, b, i + 1))

BMul(a, b) == BNorm(BMulAt(a, b, 1))

\* Long division, most significant limb first.  The divisor b is scaled to
\* have the top bit of its top limb set, so that the quotient digit estimated
\* from the two leading limbs of the remainder is at most 2 too large.
RECURSIVE BFixDigit(_, _, _)
BFixDigit(r, b, d) == IF BCmp(BMulSmall(b, d), r) > 0 THEN BFixDigit(r, b, d - 1) ELSE d

\* the largest digit d with b * d <= r, for r < b * Base
BDigit(r, b) ==
    BFixDigit(r, b, Min((Limb(r, Len(b) + 1) * Base + Limb(r, Len(b))) \div b[Len(b)], Base - 1))

\* <<quotient, remainder>> of a by b from limb i down, with q the quotient
\* limbs found so far and r the remainder carried in
RECURSIVE BDivModAt(_, _, _, _, _)

\* the step at limb i, once its quotient digit d is known
BDivModDigit(a, b, i, q, r, d) ==
    IF d = 0 THEN BDivModAt(a, b, i - 1, <<0>> \o q, r)
    ELSE BDivModAt(a, b, i - 1, <<d>> \o q, BSub(r, BMulSmall(b, d)))

BDivModStep(a, b, i, q, r) == BDivModDigit(a, b, i, q, r, BDigit(r, b))

BDivModAt(a, b, i, q, r) ==
    IF i = 0 THEN <<q, r>>
    ELSE BDivModStep(a, b, i, q, BNorm(<<a[i]>> \o r))

Unscaled(qr, k) == <<BNorm(qr[1]), BShr(qr[2], k)>>

BDivModScaled(a, b, k) ==
    Unscaled(BDivModAt(BShl(a, k), BShl(b, k), Len(BShl(a, k)), <<>>, <<>>), k)

\* <<quotient, remainder>> of a by b, b # 0
BDivMod(a, b) == BDivModScaled(a, b, 15 - BitsOfLimb(b[Len(b)]))

\* ---------------------------------------------------------------------
\* Python floats (IEEE-754 binary64, round to nearest even) as the exact
\* dyadic rational sgn * man * 2^exp, kept canonical: man odd, or zero.
\* Exponent range limits (overflow, subnormals) are not modelled: prices
\* and volumes stay far inside the range.
FZero == [sgn |-> 1, man |-> <<>>, exp |-> 0]

\* number of trailing zero bits of a # 0
ZeroLimbs(a) == CHOOSE i \in 0..(Len(a) - 1) : a[i + 1] # 0 /\ \A j \in 1..i : a[j] = 0

ZeroBits(x) == CHOOSE k \in 0..14 : x % Pow2(k) = 0 /\ (x \div Pow2(k)) % 2 = 1

TrailingAt(a, i) == 15 * i + ZeroBits(a[i + 1])

TrailingZeros(a) == TrailingAt(a, ZeroLimbs(a))

Strip(s, m, e, z) == [sgn |-> s, man |-> BShr(m, z), exp |-> e + z]

Canon(s, m, e) == IF m = <<>> THEN FZero ELSE Strip(s, m, e, TrailingZeros(m))

\* round to nearest, ties to even: q the kept bits, c the comparison of the
\* dropped bits with one half
RoundUp(s, q, e, c, sticky) ==
    IF c > 0 \/ (c = 0 /\ (sticky \/ BOdd(q))) THEN Canon(s, BAdd(q, <<1>>), e)
    ELSE Canon(s, q, e)

RoundKept(s, m, e, sticky, k, q) ==
    RoundUp(s, q, e + k, BCmp(BSub(m, BShl(q, k)), BShl(<<1>>, k - 1)), sticky)

RoundDrop(s, m, e, sticky, k) ==
    IF k <= 0 THEN Canon(s, m, e) ELSE RoundKept(s, m, e, sticky, k, BShr(m, k))

\* nearest float to s * (m + f) * 2^e, where 0 <= f < 1 and sticky <=> f > 0;
\* callers with sticky give m at least 55 bits
Round53(s, m, e, sticky) == RoundDrop(s, m, e, sticky, BBits(m) - 53)

FromInt(n) == IF n < 0 THEN Canon(-1, BFromInt(-n), 0) ELSE Canon(1, BFromInt(n), 0)

DySigned(sx, mx, sy, my, e, c) ==
    IF sx = sy THEN <<sx, BAdd(mx, my), e>>
    ELSE IF c = 0 THEN <<1, <<>>, 0>>
    ELSE IF c > 0 THEN <<sx, BSub(mx, my), e>>
    ELSE <<sy, BSub(my, mx), e>>

DyAligned(sx, mx, sy, my, e) == DySigned(sx, mx, sy, my, e, BCmp(mx, my))

DyAt(x, y, e) == DyAligned(x.sgn, BShl(x.man, x.exp - e), y.sgn, BShl(y.man, y.exp - e), e)

\* exact sum of two dyadic rationals, as <<sgn, man, exp>>
DyAdd(x, y) == DyAt(x, y, IF x.exp < y.exp THEN x.exp ELSE y.exp)

FNeg(x) == IF x.man = <<>> THEN x ELSE [x EXCEPT !.sgn = -x.sgn]

SignOf(d) == IF d[2] = <<>> THEN 0 ELSE d[1]

\* sign (-1, 0, 1) of the exact difference x - y
DyCmp(x, y) == SignOf(DyAdd(x, FNeg(y)))

RoundExact(d) == Round53(d[1], d[2], d[3], FALSE)

FAdd(x, y) == RoundExact(DyAdd(x, y))

FSub(x, y) == FAdd(x, FNeg(y))

FMul(x, y) == Round53(x.sgn * y.sgn, BMul(x.man, y.man), x.exp + y.exp, FALSE)

RoundQuotient(s, e, qr) == Round53(s, qr[1], e, qr[2] # <<>>)

\* the quotient of the significands after scaling x by 2^k, so that it has 55 bits or more
FDivScaled(x, y, k) ==
    RoundQuotient(x.sgn * y.sgn, x.exp - k - y.exp, BDivMod(BShl(x.man, k), y.man))

Positive(n) == IF n > 0 THEN n ELSE 0

\* x / y for y # 0, correctly rounded
FDiv(x, y) ==
    IF x.man = <<>> THEN FZero
    ELSE FDivScaled(x, y, Positive(BBits(y.man) + 55 - BBits(x.man)))

\* the integer part of the magnitude of x
Whole(x) == IF x.exp >= 0 THEN BToInt(BShl(x.man, x.exp)) ELSE BToInt(BShr(x.man, -x.exp))

\* math.floor and math.ceil of a float, as an integer
floor(x) == IF x.exp >= 0 \/ x.sgn > 0 THEN x.sgn * Whole(x) ELSE -(Whole(x) + 1)

ceil(x) == IF x.exp >= 0 \/ x.sgn < 0 THEN x.sgn * Whole(x) ELSE Whole(x) + 1

\* int(x) of a float: truncation toward zero
int(x) == x.sgn * Whole(x)

\* the float a decimal literal n/d denotes
Dec(n, d) == FDiv(FromInt(n), FromInt(d))

round_down_to_tick(price, tick_size) == FMul(FromInt(floor(FDiv(price, tick_size))), tick_size)

round_up_to_tick(price, tick_size) == FMul(FromInt(ceil(FDiv(price, tick_size))), tick_size)

\* ---------------------------------------------------------------------
\* Instruments, inputs and bounds

STOCK_ID == "NVDA"

\* the option chain in the iteration order of options.items()
Chain == <<"NVDA_C", "NVDA_P">>

Options == {Chain[i] : i \in 1..Len(Chain)}

option_kind == [o \in Options |-> IF o = "NVDA_C" THEN "CALL" ELSE "PUT"]

Instruments == {STOCK_ID} \cup Options

ChainIndex(o) == CHOOSE i \in 1..Len(Chain) : Chain[i] = o

\* arguments the trade loop passes to update_quotes
LoopVolume == 5

LoopPositionLimit == 100

LoopTickSize == Dec(10, 100)

\* the position limit written into hedge_delta_position
HedgeLimit == 100

\* number of cycles of the endless trade loop that are explored
MaxCycles == 2

\* number of venue-side events (fills of resting orders, book changes) explored
MaxVenueEvents == 1

\* number of direct update_quotes calls explored by the quoting harness
MaxCalls == 2


\* positions an option can have when update_quotes is called directly
QuotePositions == {-98, 0, 98}

\* <<theoretical_price, credit, tick_size>> of a direct update_quotes call
QuotePrices == { <<Dec(5237, 100), Dec(120, 100), Dec(10, 100)>>,
                 <<Dec(29, 10),    Dec(120, 100), Dec(10, 100)>>,
                 <<Dec(6, 10),     FZero,         Dec(10, 100)>>,
                 <<FromInt(10),    Dec(25, 100),  Dec(5, 10)>> }

\* <<volume, position_limit>> of a direct update_quotes call
QuoteSizes == { <<5, 100>>, <<3, 2>> }

\* positions the account can hold when the program starts
StockPositions == {-3, 0, 50}

CallPositions == {0, 98}

PutPositions == {0}

OptionPositions(kind) == IF kind = "CALL" THEN CallPositions ELSE PutPositions

\* order books of the underlying: either side may be empty
FullBook == [bids |-> <<Dec(9990, 100)>>, asks |-> <<Dec(10010, 100)>>]

MovedBook == [bids |-> <<FromInt(100)>>, asks |-> <<Dec(10020, 100)>>]

Books == { FullBook, MovedBook,
           [bids |-> <<>>,               asks |-> <<Dec(10010, 100)>>],
           [bids |-> <<Dec(9990, 100)>>, asks |-> <<>>] }

\* values the Black-Scholes library can return.  The library is not part of
\* the repository; its results are drawn from these sets.
\* call_value / put_value: a non-negative price
LoopValues == {Dec(5237, 100)}

\* call_vega: non-negative
LoopCredits == {Dec(120, 100)}

\* call_delta in (0,1), put_delta in (-1,0)
CallDeltas == {Dec(5, 10)}

PutDeltas == {Dec(-9, 10)}

Deltas(kind) == IF kind = "CALL" THEN CallDeltas ELSE PutDeltas

\* call_vega in hedge_vega_position: non-negative
Vegas == {FZero, Dec(120, 100)}

\* gamma: positive for the inputs the loop passes
CallGammas == {FromInt(1)}

PutGammas == {Dec(1, 100)}

Gammas(kind) == IF kind = "CALL" THEN CallGammas ELSE PutGammas

VARIABLES
    pc,                 \* where the program is: trade loop position, or "halted"
    cycle,              \* number of loop iterations entered (calls made, in the harness)
    idx,                \* index in Chain of the option the current loop is at
    book,               \* venue: last price book of the underlying
    positions,          \* venue: position per instrument
    orders,             \* venue: resting orders
    nextId,             \* venue: next order id
    venueEvents,        \* number of venue-side events so far
    stock_value,        \* trade loop: midpoint of the underlying this cycle
    theoretical_value,  \* module global set by the trade loop, read by hedge_gamma_position
    uq,                 \* locals and orders of the latest update_quotes call
    hg,                 \* locals of the running hedge_gamma_position call
    hd,                 \* locals and orders of the latest hedge_delta_position run
    hv,                 \* locals of the latest hedge_vega_position call
    stages,             \* hedging stages entered in the current cycle, in order
    error,              \* the exception that ended the program, "" if none
    log,                \* venue and pricing calls of the current cycle, in order
    now,                \* the clock: index in Instants of what dt.datetime.now() returns
    horizon,            \* the clock: index in Instants of the last instant it reaches in this run
    reads               \* pricing calls of the latest step of the program that read the clock, with their T

vars == <<pc, cycle, idx, book, positions, orders, nextId, venueEvents, stock_value,
          theoretical_value, uq, hg, hd, hv, stages, error, log, now, horizon, reads>>

\* the value None, distinct from every float
None == [none |-> TRUE]

NoRun == [ran |-> FALSE]

\* ---------------------------------------------------------------------
\* Time (libs.py)

\* a datetime: the ordinal of its day, the second of the day, the microsecond
Timestamp(d, s, u) == [days |-> d, seconds |-> s, microseconds |-> u]

\* the microseconds of a datetime since the start of day 0, as an integer of any size
Micros(t) ==
    BAdd(BMul(BFromInt(t.days * 86400 + t.seconds), BFromInt(1000000)),
         BFromInt(t.microseconds))

Since(t) == Canon(1, Micros(t), 0)

Exact(d) == Canon(d[1], d[2], d[3])

\* datetime - datetime: a timedelta, held as its signed count of microseconds
timedelta_sub(a, b) == Exact(DyAdd(Since(a), FNeg(Since(b))))

\* dt.timedelta(days=1)
OneDay == Canon(1, BMul(BFromInt(86400), BFromInt(1000000)), 0)

\* calculate_time_to_date with the operands of the subtraction exchanged
TimeToDateReversed(expiry_date, current_time) ==
    FDiv(FDiv(timedelta_sub(current_time, expiry_date), OneDay), FromInt(365))

\* timedelta / timedelta is the true division of the two microsecond counts,
\* a float; that float is then divided by 365
calculate_time_to_date(expiry_date, current_time) ==
    FDiv(FDiv(timedelta_sub(expiry_date, current_time), OneDay), FromInt(365))

\* the values dt.datetime.now() takes, in order: half a second before the
\* expiry of the first option, and half a second after it
Instants == <<Timestamp(0, 0, 0), Timestamp(0, 1, 0)>>

\* expiry of each option of the chain
expiry == [o \in Options |-> IF o = Chain[1] THEN Timestamp(0, 0, 500000) ELSE Timestamp(30, 0, 0)]

\* calculate_current_time_to_date(expiry_date) when the clock is at Instants[n]
calculate_current_time_to_date(expiry_date, n) == calculate_time_to_date(expiry_date, Instants[n])

\* the same, for every option and every instant of the clock
TimeToExpiry ==
    [o \in Options |-> [n \in 1..Len(Instants) |-> calculate_current_time_to_date(expiry[o], n)]]

\* what successive reads of the clock can return: the clock never goes back,
\* moves on by at most one instant between two reads, and stops at the horizon
ClockRuns(n) ==
    {s \in [1..n -> now..horizon] :
        /\ s[1] <= now + 1
        /\ \A i \in 1..(n - 1) : s[i] <= s[i + 1] /\ s[i + 1] <= s[i] + 1}

\* a read of the clock made by a pricing call
Read(op, by, option_id, n) ==
    [op |-> op, by |-> by, instrument_id |-> option_id, T |-> TimeToExpiry[option_id][n]]

\* the clock after a run of reads, and the reads recorded
Clocked(run, entries) ==
    /\ now' = run[Len(run)]
    /\ reads' = entries


\* ---------------------------------------------------------------------
\* Helpers

Abs(n) == IF n < 0 THEN -n ELSE n

IsZero(x) == x.man = <<>>

\* x <= y and x < y on exact values
Leq(x, y) == DyCmp(x, y) <= 0

Less(x, y) == DyCmp(x, y) < 0

IsWhole(x) == x.exp >= 0

Outstanding(instrument_id) == {r \in orders : r.instrument_id = instrument_id}

\* the orders of a set in the order of their ids
RECURSIVE ById(_)
ById(S) == IF S = {} THEN <<>>
           ELSE LET m == CHOOSE r \in S : \A q \in S : r.order_id <= q.order_id
                IN  <<m>> \o ById(S \ {m})

Call(op, by, instrument_id) == [op |-> op, by |-> by, instrument_id |-> instrument_id]

\* the record of one insert_order call: its arguments and the values it was sized from
InsertCall(by, o) ==
    [op |-> "insert_order", by |-> by, instrument_id |-> o.instrument_id, price |-> o.price,
     volume |-> o.volume, side |-> o.side, order_type |-> o.order_type, ctx |-> o.ctx]

Resting(o, id, by) ==
    [order_id |-> id, by |-> by, instrument_id |-> o.instrument_id, price |-> o.price,
     volume |-> o.volume, side |-> o.side, order_type |-> o.order_type]

\* ---------------------------------------------------------------------
\* get_midpoint_value

Available(order_book) == order_book.bids # <<>> /\ order_book.asks # <<>>

get_midpoint_value(order_book) ==
    IF ~Available(order_book) THEN None
    ELSE FDiv(FAdd(order_book.bids[1], order_book.asks[1]), FromInt(2))

\* ---------------------------------------------------------------------
\* update_quotes

\* update_quotes without the clipping of lines 127-131
QuotesUnclipped(position, theoretical_price, credit, volume, position_limit, tick_size) ==
    [bid_price  |-> round_down_to_tick(FSub(theoretical_price, credit), tick_size),
     ask_price  |-> round_up_to_tick(FAdd(theoretical_price, credit), tick_size),
     bid_volume |-> volume,
     ask_volume |-> volume,
     ctx |-> [position |-> position, position_limit |-> position_limit, volume |-> volume,
              theoretical_price |-> theoretical_price, credit |-> credit,
              tick_size |-> tick_size]]

\* bid and ask prices, and the volumes clipped to the position limit
Quotes(position, theoretical_price, credit, volume, position_limit, tick_size) ==
    LET max_volume_to_buy  == position_limit - position
        max_volume_to_sell == position_limit + position
    IN  [bid_price  |-> round_down_to_tick(FSub(theoretical_price, credit), tick_size),
         ask_price  |-> round_up_to_tick(FAdd(theoretical_price, credit), tick_size),
         bid_volume |-> Min(volume, max_volume_to_buy),
         ask_volume |-> Min(volume, max_volume_to_sell),
         ctx |-> [position |-> position, position_limit |-> position_limit, volume |-> volume,
                  theoretical_price |-> theoretical_price, credit |-> credit,
                  tick_size |-> tick_size]]

\* the limit orders to insert: a side only if its volume is positive
Inserts(option_id, q) ==
    (IF q.bid_volume > 0
     THEN <<[instrument_id |-> option_id, price |-> q.bid_price, volume |-> FromInt(q.bid_volume),
             side |-> "bid", order_type |-> "limit", ctx |-> q.ctx]>>
     ELSE <<>>)
    \o (IF q.ask_volume > 0
        THEN <<[instrument_id |-> option_id, price |-> q.ask_price, volume |-> FromInt(q.ask_volume),
                side |-> "ask", order_type |-> "limit", ctx |-> q.ctx]>>
        ELSE <<>>)

\* every outstanding order of the option is deleted
Deletes(option_id, old) ==
    [i \in 1..Len(old) |-> [op |-> "delete_order", by |-> "update_quotes",
                            instrument_id |-> option_id, order_id |-> old[i].order_id]]

\* update_quotes without the pull of lines 115-118
RequotedKeeping(option_id, old, q, inserts) ==
    [orders |-> orders
                \cup {Resting(inserts[i], nextId + i - 1, "update_quotes") : i \in 1..Len(inserts)},
     nextId |-> nextId + Len(inserts),
     calls  |-> <<Call("poll_new_trades", "update_quotes", option_id),
                  Call("get_outstanding_orders", "update_quotes", option_id),
                  Call("get_positions", "update_quotes", option_id)>>
                \o [i \in 1..Len(inserts) |-> InsertCall("update_quotes", inserts[i])],
     locals |-> [ran |-> TRUE, option_id |-> option_id, outstanding |-> Len(old),
                 position |-> q.ctx.position, position_limit |-> q.ctx.position_limit,
                 volume |-> q.ctx.volume, theoretical_price |-> q.ctx.theoretical_price,
                 credit |-> q.ctx.credit, tick_size |-> q.ctx.tick_size,
                 bid_price |-> q.bid_price, ask_price |-> q.ask_price,
                 bid_volume |-> q.bid_volume, ask_volume |-> q.ask_volume,
                 pulled |-> old, submitted |-> inserts]]

\* the venue after the call, the venue calls made, in order, and the call's locals
Requoted(option_id, old, q, inserts) ==
    [orders |-> (orders \ Outstanding(option_id))
                \cup {Resting(inserts[i], nextId + i - 1, "update_quotes") : i \in 1..Len(inserts)},
     nextId |-> nextId + Len(inserts),
     calls  |-> <<Call("poll_new_trades", "update_quotes", option_id),
                  Call("get_outstanding_orders", "update_quotes", option_id)>>
                \o Deletes(option_id, old)
                \o <<Call("get_positions", "update_quotes", option_id)>>
                \o [i \in 1..Len(inserts) |-> InsertCall("update_quotes", inserts[i])],
     locals |-> [ran |-> TRUE, option_id |-> option_id, outstanding |-> Len(old),
                 position |-> q.ctx.position, position_limit |-> q.ctx.position_limit,
                 volume |-> q.ctx.volume, theoretical_price |-> q.ctx.theoretical_price,
                 credit |-> q.ctx.credit, tick_size |-> q.ctx.tick_size,
                 bid_price |-> q.bid_price, ask_price |-> q.ask_price,
                 bid_volume |-> q.bid_volume, ask_volume |-> q.ask_volume,
                 pulled |-> old, submitted |-> inserts]]

Placed(option_id, q) ==
    Requoted(option_id, ById(Outstanding(option_id)), q, Inserts(option_id, q))

update_quotes(option_id, theoretical_price, credit, volume, position_limit, tick_size) ==
    Placed(option_id, Quotes(positions[option_id], theoretical_price, credit,
                             volume, position_limit, tick_size))

\* ---------------------------------------------------------------------
\* hedge_delta_position, given the deltas the pricing library returns

\* Total_aggregate_delta_position after the first n options of the chain
RECURSIVE AggregateDelta(_, _)
AggregateDelta(delta, n) ==
    IF n = 0 THEN FromInt(positions[STOCK_ID])
    ELSE FAdd(AggregateDelta(delta, n - 1),
              FMul(delta[Chain[n]], FromInt(positions[Chain[n]])))

\* n_o_s: the hedge size if the bound holds, else 0
Clamped(bound, number_of_stocks) ==
    IF Leq(FromInt(1), bound) /\ Leq(bound, FromInt(HedgeLimit)) THEN number_of_stocks ELSE FZero

\* the values the order of one run is sized from
DeltaContext(Total_aggregate_delta_position, stock_position, BS_delta, order_book) ==
    [Total_aggregate_delta_position |-> Total_aggregate_delta_position,
     position |-> stock_position, delta |-> BS_delta,
     number_of_stocks |-> FMul(FromInt(-1 * stock_position), BS_delta),
     order_book |-> order_book]

\* hedge_delta_position with the two branches of lines 203-226 exchanged
DeltaOrdersSwapped(c) ==
    IF c.Total_aggregate_delta_position.sgn < 0
    THEN <<[instrument_id |-> STOCK_ID, price |-> c.order_book.bids[1],
            volume |-> FromInt((-1) * int(Clamped(FAdd(FromInt(c.position), c.number_of_stocks),
                                                  c.number_of_stocks))),
            side |-> "ask", order_type |-> "ioc", ctx |-> c]>>
    ELSE IF ~IsZero(c.Total_aggregate_delta_position)
    THEN <<[instrument_id |-> STOCK_ID, price |-> c.order_book.asks[1],
            volume |-> FromInt((-1) * int(Clamped(FSub(FromInt(Abs(c.position)), c.number_of_stocks),
                                                  c.number_of_stocks))),
            side |-> "bid", order_type |-> "ioc", ctx |-> c]>>
    ELSE <<>>

\* the order submitted: a buy at the best ask if the aggregate delta is
\* negative, a sell at the best bid if it is positive, none if it is zero
DeltaOrders(c) ==
    IF c.Total_aggregate_delta_position.sgn < 0
    THEN <<[instrument_id |-> STOCK_ID, price |-> c.order_book.asks[1],
            volume |-> FromInt((-1) * int(Clamped(FSub(FromInt(Abs(c.position)), c.number_of_stocks),
                                                  c.number_of_stocks))),
            side |-> "bid", order_type |-> "ioc", ctx |-> c]>>
    ELSE IF ~IsZero(c.Total_aggregate_delta_position)
    THEN <<[instrument_id |-> STOCK_ID, price |-> c.order_book.bids[1],
            volume |-> FromInt((-1) * int(Clamped(FAdd(FromInt(c.position), c.number_of_stocks),
                                                  c.number_of_stocks))),
            side |-> "ask", order_type |-> "ioc", ctx |-> c]>>
    ELSE <<>>

\* the pricing and venue calls of one run up to the book read
DeltaReads ==
    <<Call("get_positions", "hedge_delta_position", STOCK_ID)>>
    \o [i \in 1..Len(Chain) |-> Call("calculate_option_delta", "hedge_delta_position", Chain[i])]
    \o <<Call("calculate_option_delta", "hedge_delta_position", Chain[Len(Chain)]),
         Call("get_last_price_book", "hedge_delta_position", STOCK_ID)>>

DeltaRun(c, crashed, submitted) ==
    [ran |-> TRUE, crashed |-> crashed, ctx |-> c, submitted |-> submitted,
     calls |-> DeltaReads \o [i \in 1..Len(submitted) |->
                                InsertCall("hedge_delta_position", submitted[i])]]

\* reading the best bid or ask of an empty side raises IndexError
DeltaSized(c) ==
    IF Available(c.order_book) THEN DeltaRun(c, FALSE, DeltaOrders(c)) ELSE DeltaRun(c, TRUE, <<>>)

hedge_delta_position(delta) ==
    DeltaSized(DeltaContext(AggregateDelta(delta, Len(Chain)), positions[STOCK_ID],
                            delta[Chain[Len(Chain)]], book))

\* ---------------------------------------------------------------------
\* The venue's handling of an inserted order: an order with a positive
\* volume is accepted, any other is refused without effect

Accepted(o) == ~IsZero(o.volume) /\ o.volume.sgn > 0

\* position after a full fill of order o
AfterFill(position, o) ==
    IF o.side = "bid" THEN position + int(o.volume) ELSE position - int(o.volume)

\* ---------------------------------------------------------------------
\* Initial state: connected to the venue, instruments loaded, no resting orders

Init ==
    /\ pc = "start"
    /\ cycle = 0
    /\ idx = 1
    /\ book = FullBook
    /\ positions \in [Instruments -> StockPositions \cup UNION {OptionPositions(k) : k \in {"CALL", "PUT"}}]
    /\ positions[STOCK_ID] \in StockPositions
    /\ \A o \in Options : positions[o] \in OptionPositions(option_kind[o])
    /\ orders = {}
    /\ nextId = 1
    /\ venueEvents = 0
    /\ stock_value = None
    /\ theoretical_value = None
    /\ uq = NoRun
    /\ hg = NoRun
    /\ hd = NoRun
    /\ hv = NoRun
    /\ now = 1
    /\ horizon = 1
    /\ reads = <<>>
    /\ stages = <<>>
    /\ error = ""
    /\ log = <<>>

\* ---------------------------------------------------------------------
\* Trade loop

\* the trade loop without the continue of lines 347-350
CycleStartNoSkip ==
    /\ pc = "start"
    /\ cycle < MaxCycles
    /\ cycle' = cycle + 1
    /\ stock_value' = get_midpoint_value(book)
    /\ log' = <<Call("get_last_price_book", "get_midpoint_value", STOCK_ID)>>
    /\ stages' = <<>>
    /\ idx' = 1
    /\ pc' = "quote"
    /\ reads' = <<>>
    /\ UNCHANGED <<horizon, now, hv, uq, book, positions, orders, nextId, venueEvents, theoretical_value, hg, hd, error>>

\* top of the loop body: read the midpoint; skip the cycle when there is none
CycleStart ==
    /\ pc = "start"
    /\ cycle < MaxCycles
    /\ cycle' = cycle + 1
    /\ stock_value' = get_midpoint_value(book)
    /\ log' = <<Call("get_last_price_book", "get_midpoint_value", STOCK_ID)>>
    /\ stages' = <<>>
    /\ idx' = 1
    /\ pc' = IF Available(book) THEN "quote" ELSE "start"
    /\ reads' = <<>>
    /\ UNCHANGED <<horizon, now, hv, uq, book, positions, orders, nextId, venueEvents, theoretical_value, hg, hd, error>>

\* one iteration of the for loop: price the option and requote it
Quoted(option_id, value, call) ==
    /\ theoretical_value' = value
    /\ orders' = call.orders
    /\ nextId' = call.nextId
    /\ uq' = call.locals
    /\ log' = log \o <<Call("calculate_theoretical_option_value", "trade_loop", option_id),
                       Call("call_vega", "trade_loop", option_id)>>
                  \o call.calls

\* the two clock reads of one iteration: in calculate_theoretical_option_value
\* and in the argument of call_vega
QuoteReads(option_id, run) ==
    <<Read("calculate_theoretical_option_value", "trade_loop", option_id, run[1]),
      Read("call_vega", "trade_loop", option_id, run[2])>>

\* the trade loop hedging after the first option of the chain
QuoteOptionOnce ==
    /\ pc = "quote"
    /\ \E value \in LoopValues, credit \in LoopCredits :
         Quoted(Chain[idx], value,
                update_quotes(Chain[idx], value, credit,
                              LoopVolume, LoopPositionLimit, LoopTickSize))
    /\ idx' = 1
    /\ pc' = "hedge_delta_1"
    /\ \E run \in ClockRuns(2) : Clocked(run, QuoteReads(Chain[idx], run))
    /\ UNCHANGED <<horizon, hv, cycle, book, positions, venueEvents, stock_value, hg, hd, stages, error>>

QuoteOption ==
    /\ pc = "quote"
    /\ \E value \in LoopValues, credit \in LoopCredits :
         Quoted(Chain[idx], value,
                update_quotes(Chain[idx], value, credit,
                              LoopVolume, LoopPositionLimit, LoopTickSize))
    /\ IF idx < Len(Chain)
       THEN idx' = idx + 1 /\ pc' = "quote"
       ELSE idx' = 1 /\ pc' = "hedge_delta_1"
    /\ \E run \in ClockRuns(2) : Clocked(run, QuoteReads(Chain[idx], run))
    /\ UNCHANGED <<horizon, hv, cycle, book, positions, venueEvents, stock_value, hg, hd, stages, error>>

\* hedge_delta_position, called at the start and at the end of hedge_gamma_position;
\* the immediate-or-cancel order trades in full or not at all
DeltaHedged(run, filled) ==
    /\ hd' = [ran |-> TRUE, crashed |-> run.crashed, ctx |-> run.ctx,
              submitted |-> run.submitted]
    /\ log' = log \o run.calls
    /\ stages' = Append(stages, "delta")
    /\ IF run.crashed
       THEN pc' = "halted" /\ error' = "IndexError"
       ELSE pc' = (IF pc = "hedge_delta_1" THEN "gamma_total" ELSE "sleep")
            /\ error' = error
    /\ positions' =
         IF run.submitted # <<>> /\ Accepted(run.submitted[1]) /\ filled
         THEN [positions EXCEPT ![STOCK_ID] = AfterFill(@, run.submitted[1])]
         ELSE positions

DeltaChoices == {delta \in [Options -> CallDeltas \cup PutDeltas] :
                   \A o \in Options : delta[o] \in Deltas(option_kind[o])}

\* the clock reads of hedge_delta_position: one per option in the loop, and
\* one more for the last option when the number of stocks is computed
DeltaClock(run) ==
    [i \in 1..Len(Chain) |->
       Read("calculate_option_delta", "hedge_delta_position", Chain[i], run[i])]
    \o <<Read("calculate_option_delta", "hedge_delta_position", Chain[Len(Chain)],
              run[Len(Chain) + 1])>>

HedgeDelta ==
    /\ pc \in {"hedge_delta_1", "hedge_delta_2"}
    /\ \E delta \in DeltaChoices, filled \in BOOLEAN :
         DeltaHedged(hedge_delta_position(delta), filled)
    /\ \E run \in ClockRuns(Len(Chain) + 1) : Clocked(run, DeltaClock(run))
    /\ UNCHANGED <<horizon, hv, uq, cycle, idx, book, orders, nextId, venueEvents, stock_value,
                   theoretical_value, hg>>

\* Total_aggregate_gamma_position after the first n options of the chain
RECURSIVE AggregateGamma(_, _)
AggregateGamma(g, n) ==
    IF n = 0 THEN FromInt(positions[STOCK_ID])
    ELSE FAdd(AggregateGamma(g, n - 1), FMul(g[Chain[n]], FromInt(positions[Chain[n]])))

GammaChoices == {g \in [Options -> CallGammas \cup PutGammas] :
                   \A o \in Options : g[o] \in Gammas(option_kind[o])}

\* hedge_gamma_position: the aggregation loop
GammaTotal ==
    /\ pc = "gamma_total"
    /\ \E g \in GammaChoices :
         hg' = [ran |-> TRUE, positions |-> positions, gamma |-> g,
                Total_aggregate_gamma_position |-> AggregateGamma(g, Len(Chain))]
    /\ log' = log \o <<Call("get_positions", "hedge_gamma_position", STOCK_ID)>>
                  \o [i \in 1..Len(Chain) |-> Call("gamma", "hedge_gamma_position", Chain[i])]
    /\ stages' = Append(stages, "gamma")
    /\ idx' = 1
    /\ pc' = "gamma_insert"
    /\ \E run \in ClockRuns(Len(Chain)) :
         Clocked(run, [i \in 1..Len(Chain) |->
                         Read("gamma", "hedge_gamma_position", Chain[i], run[i])])
    /\ UNCHANGED <<horizon, hv, uq, cycle, book, positions, orders, nextId, venueEvents, stock_value,
                   theoretical_value, hd, error>>

\* hedge_gamma_position buying at the best bid instead of selling at the best ask
GammaOrderAtBid(option_id, order_book) ==
    [instrument_id |-> option_id, price |-> order_book.bids[1],
     volume |-> FDiv(hg.Total_aggregate_gamma_position, hg.gamma[option_id]),
     side |-> "bid", order_type |-> "limit",
     ctx |-> [position |-> hg.positions[option_id], gamma |-> hg.gamma[option_id],
              Total_aggregate_gamma_position |-> hg.Total_aggregate_gamma_position,
              order_book |-> order_book]]

\* the limit sell of one iteration of the order loop
GammaOrder(option_id, order_book) ==
    [instrument_id |-> option_id, price |-> order_book.asks[1],
     volume |-> FDiv(hg.Total_aggregate_gamma_position, hg.gamma[option_id]),
     side |-> "ask", order_type |-> "limit",
     ctx |-> [position |-> hg.positions[option_id], gamma |-> hg.gamma[option_id],
              Total_aggregate_gamma_position |-> hg.Total_aggregate_gamma_position,
              order_book |-> order_book]]

GammaReads(option_id) ==
    <<Call("gamma", "hedge_gamma_position", option_id),
      Call("get_last_price_book", "hedge_gamma_position", STOCK_ID)>>

GammaInserted(sell) ==
    /\ log' = log \o GammaReads(sell.instrument_id) \o <<InsertCall("hedge_gamma_position", sell)>>
    /\ IF Accepted(sell)
       THEN /\ orders' = orders \cup {Resting(sell, nextId, "hedge_gamma_position")}
            /\ nextId' = nextId + 1
       ELSE UNCHANGED <<orders, nextId>>
    /\ IF idx < Len(Chain)
       THEN idx' = idx + 1 /\ pc' = "gamma_insert"
       ELSE idx' = 1 /\ pc' = "hedge_delta_2"
    /\ error' = error

\* hedge_gamma_position: one iteration of the order loop; reading the best
\* bid or ask of an empty side raises IndexError
GammaInsert ==
    /\ pc = "gamma_insert"
    /\ IF Available(book)
       THEN GammaInserted(GammaOrder(Chain[idx], book))
       ELSE /\ pc' = "halted"
            /\ error' = "IndexError"
            /\ log' = log \o GammaReads(Chain[idx])
            /\ UNCHANGED <<idx, orders, nextId>>
    /\ \E run \in ClockRuns(1) :
         Clocked(run, <<Read("gamma", "hedge_gamma_position", Chain[idx], run[1])>>)
    /\ UNCHANGED <<horizon, hv, uq, cycle, book, positions, venueEvents, stock_value, theoretical_value,
                   hg, hd, stages>>

\* end of the loop body: sleep, then the next iteration
EndCycle ==
    /\ pc = "sleep"
    /\ pc' = "start"
    /\ reads' = <<>>
    /\ UNCHANGED <<horizon, now, hv, uq, cycle, idx, book, positions, orders, nextId, venueEvents, stock_value,
                   theoretical_value, hg, hd, stages, error, log>>

\* ---------------------------------------------------------------------
\* Venue

\* the order book of the underlying changes
BookChange ==
    /\ pc \notin {"halted", "harness"}
    /\ venueEvents < MaxVenueEvents
    /\ venueEvents' = venueEvents + 1
    /\ \E b \in Books \ {book} : book' = b
    /\ UNCHANGED <<horizon, now, reads, hv, uq, pc, cycle, idx, positions, orders, nextId, stock_value, theoretical_value,
                   hg, hd, stages, error, log>>

\* a resting order trades in full and leaves the book
Fill ==
    /\ pc # "halted"
    /\ venueEvents < MaxVenueEvents
    /\ venueEvents' = venueEvents + 1
    /\ \E o \in orders :
         /\ IsWhole(o.volume)
         /\ orders' = orders \ {o}
         /\ positions' = [positions EXCEPT ![o.instrument_id] = AfterFill(@, o)]
    /\ UNCHANGED <<horizon, now, reads, hv, uq, pc, cycle, idx, book, nextId, stock_value, theoretical_value,
                   hg, hd, stages, error, log>>

Next == CycleStart \/ QuoteOption \/ HedgeDelta \/ GammaTotal \/ GammaInsert \/ EndCycle
        \/ BookChange \/ Fill

\* the whole run within one instant of the clock
Spec == Init /\ [][Next]_vars

\* the start of a run during which the clock moves through Instants
InitClock ==
    /\ pc = "start"
    /\ cycle = 0
    /\ idx = 1
    /\ book = FullBook
    /\ positions = [i \in Instruments |-> 0]
    /\ orders = {}
    /\ nextId = 1
    /\ venueEvents = 0
    /\ stock_value = None
    /\ theoretical_value = None
    /\ uq = NoRun
    /\ hg = NoRun
    /\ hd = NoRun
    /\ hv = NoRun
    /\ now = 1
    /\ horizon = Len(Instants)
    /\ reads = <<>>
    /\ stages = <<>>
    /\ error = ""
    /\ log = <<>>

SpecClock == InitClock /\ [][Next]_vars
\* ---------------------------------------------------------------------
\* update_quotes called on its own, with arguments of its whole domain

InitQuote ==
    /\ pc = "harness"
    /\ cycle = 0
    /\ idx = 1
    /\ book = FullBook
    /\ positions \in [Instruments -> QuotePositions]
    /\ \A i \in Instruments : i # Chain[1] => positions[i] = 0
    /\ orders = {}
    /\ nextId = 1
    /\ venueEvents = 0
    /\ stock_value = None
    /\ theoretical_value = None
    /\ uq = NoRun
    /\ hg = NoRun
    /\ hd = NoRun
    /\ hv = NoRun
    /\ now = 1
    /\ horizon = 1
    /\ reads = <<>>
    /\ stages = <<>>
    /\ error = ""
    /\ log = <<>>

Requote(call) ==
    /\ orders' = call.orders
    /\ nextId' = call.nextId
    /\ uq' = call.locals
    /\ log' = call.calls

CallUpdateQuotes ==
    /\ pc = "harness"
    /\ cycle < MaxCalls
    /\ cycle' = cycle + 1
    /\ \E option_id \in Options, p \in QuotePrices, s \in QuoteSizes :
         Requote(update_quotes(option_id, p[1], p[2], s[1], s[2], p[3]))
    /\ UNCHANGED <<horizon, now, reads, hv, pc, idx, book, positions, venueEvents, stock_value, theoretical_value,
                   hg, hd, stages, error>>

NextQuote == CallUpdateQuotes \/ Fill

SpecQuote == InitQuote /\ [][NextQuote]_vars

\* ---------------------------------------------------------------------
\* hedge_vega_position, which the trade loop does not call, called on its own

\* Total_aggregate_vega_position after the first n options of the chain
RECURSIVE AggregateVega(_, _)
AggregateVega(vega, n) ==
    IF n = 0 THEN FromInt(positions[STOCK_ID])
    ELSE FAdd(AggregateVega(vega, n - 1), FMul(vega[Chain[n]], FromInt(positions[Chain[n]])))

VegaReads ==
    <<Call("get_positions", "hedge_vega_position", STOCK_ID)>>
    \o [i \in 1..Len(Chain) |-> Call("call_vega", "hedge_vega_position", Chain[i])]
    \o <<Call("calculate_option_delta", "hedge_vega_position", Chain[Len(Chain)])>>

\* hedge_vega_position selling the aggregate on the last option, as
\* hedge_gamma_position does
HedgeVegaSelling(vega, delta) ==
    [orders |-> orders \cup {[order_id |-> nextId, by |-> "hedge_vega_position",
                              instrument_id |-> Chain[Len(Chain)], price |-> book.asks[1],
                              volume |-> FromInt(1), side |-> "ask", order_type |-> "limit"]},
     nextId |-> nextId + 1,
     calls |-> VegaReads \o <<[op |-> "insert_order", by |-> "hedge_vega_position",
                               instrument_id |-> Chain[Len(Chain)], price |-> book.asks[1],
                               volume |-> FromInt(1), side |-> "ask", order_type |-> "limit",
                               ctx |-> [position |-> positions[Chain[Len(Chain)]]]]>>,
     locals |-> [ran |-> TRUE,
                 Total_aggregate_vega_position |-> AggregateVega(vega, Len(Chain)),
                 stock_position |-> positions[STOCK_ID],
                 positions |-> FMul(FromInt(-1 * positions[STOCK_ID]), delta[Chain[Len(Chain)]])]]

\* the venue after the call, the calls made, and the call's locals: the
\* aggregate, and the local name positions rebound to a number on its last line
hedge_vega_position(vega, delta) ==
    [orders |-> orders,
     nextId |-> nextId,
     calls |-> VegaReads,
     locals |-> [ran |-> TRUE,
                 Total_aggregate_vega_position |-> AggregateVega(vega, Len(Chain)),
                 stock_position |-> positions[STOCK_ID],
                 positions |-> FMul(FromInt(-1 * positions[STOCK_ID]), delta[Chain[Len(Chain)]])]]

\* the clock reads of hedge_vega_position: one per option in the loop, and
\* one more for the last option in calculate_option_delta
VegaClock(run) ==
    [i \in 1..Len(Chain) |-> Read("call_vega", "hedge_vega_position", Chain[i], run[i])]
    \o <<Read("calculate_option_delta", "hedge_vega_position", Chain[Len(Chain)],
              run[Len(Chain) + 1])>>

VegaChoices == [Options -> Vegas]

VegaHedged(call) ==
    /\ orders' = call.orders
    /\ nextId' = call.nextId
    /\ hv' = call.locals
    /\ log' = call.calls

CallHedgeVega ==
    /\ pc = "harness"
    /\ cycle < MaxCalls
    /\ cycle' = cycle + 1
    /\ \E vega \in VegaChoices, delta \in DeltaChoices :
         VegaHedged(hedge_vega_position(vega, delta))
    /\ stages' = Append(stages, "vega")
    /\ \E run \in ClockRuns(Len(Chain) + 1) : Clocked(run, VegaClock(run))
    /\ UNCHANGED <<horizon, pc, idx, book, positions, venueEvents, stock_value, theoretical_value,
                   uq, hg, hd, error>>

\* update_quotes called as the trade loop calls it, to have quotes resting
CallLoopQuotes ==
    /\ pc = "harness"
    /\ cycle < MaxCalls
    /\ cycle' = cycle + 1
    /\ \E option_id \in Options, value \in LoopValues, credit \in LoopCredits :
         Requote(update_quotes(option_id, value, credit,
                               LoopVolume, LoopPositionLimit, LoopTickSize))
    /\ UNCHANGED <<horizon, now, reads, hv, pc, idx, book, positions, venueEvents, stock_value,
                   theoretical_value, hg, hd, stages, error>>

NextVega == CallLoopQuotes \/ Fill \/ CallHedgeVega

SpecVega == InitQuote /\ [][NextVega]_vars

\* ---------------------------------------------------------------------
\* The pricing and time functions called on their own

\* what an option_kind argument can be: the two members of OptionKind, or anything else
OptionKinds == {"CALL", "PUT", "OTHER"}

\* what put_value returns
PutValues == {Dec(290, 100)}

\* datetimes the time functions are called with
Timestamps ==
    {Timestamp(0, 0, 0), Timestamp(0, 0, 1), Timestamp(0, 0, 999999), Timestamp(0, 1, 0),
     Timestamp(0, 86399, 999999), Timestamp(1, 0, 0), Timestamp(365, 0, 0),
     Timestamp(365, 86399, 999999)}

\* calculate_theoretical_option_value with a last branch that takes any other kind for a put
OptionValueDefaultingToPut(kind, call, put) ==
    IF kind = "CALL" THEN [outcome |-> "returned", value |-> call]
    ELSE [outcome |-> "returned", value |-> put]

\* call and put are what call_value and put_value return for the arguments;
\* for another kind no branch assigns option_value and the return statement
\* raises UnboundLocalError
calculate_theoretical_option_value(kind, call, put) ==
    IF kind = "CALL" THEN [outcome |-> "returned", value |-> call]
    ELSE IF kind = "PUT" THEN [outcome |-> "returned", value |-> put]
    ELSE [outcome |-> "UnboundLocalError", value |-> None]

\* call and put are what call_delta and put_delta return for the arguments
calculate_option_delta(kind, call, put) ==
    IF kind = "CALL" THEN [outcome |-> "returned", value |-> call]
    ELSE IF kind = "PUT" THEN [outcome |-> "returned", value |-> put]
    ELSE [outcome |-> "Exception", value |-> None]

InitPure ==
    /\ pc = "pure"
    /\ cycle = 0
    /\ idx = 1
    /\ book = FullBook
    /\ positions = [i \in Instruments |-> 0]
    /\ orders = {}
    /\ nextId = 1
    /\ venueEvents = 0
    /\ stock_value = None
    /\ theoretical_value = None
    /\ uq = NoRun
    /\ hg = NoRun
    /\ hd = NoRun
    /\ hv = NoRun
    /\ now = 1
    /\ horizon = 1
    /\ reads = <<>>
    /\ stages = <<>>
    /\ error = ""
    /\ log = <<>>

\* one call of a function: the arguments and the way it ended
Priced(op, option_id, kind, call, put, result) ==
    log' = <<[op |-> op, by |-> "harness", instrument_id |-> option_id, option_kind |-> kind,
              call |-> call, put |-> put, outcome |-> result.outcome, value |-> result.value]>>

CallOptionValue ==
    /\ pc = "pure"
    /\ cycle < MaxCalls
    /\ cycle' = cycle + 1
    /\ \E o \in Options, kind \in OptionKinds, call \in LoopValues, put \in PutValues :
         /\ Priced("calculate_theoretical_option_value", o, kind, call, put,
                   calculate_theoretical_option_value(kind, call, put))
         /\ \E run \in ClockRuns(1) :
              Clocked(run, <<Read("calculate_theoretical_option_value", "harness", o, run[1])>>)
    /\ UNCHANGED <<horizon, pc, idx, book, positions, orders, nextId, venueEvents, stock_value,
                   theoretical_value, uq, hg, hd, hv, stages, error>>

CallOptionDelta ==
    /\ pc = "pure"
    /\ cycle < MaxCalls
    /\ cycle' = cycle + 1
    /\ \E o \in Options, kind \in OptionKinds, call \in CallDeltas, put \in PutDeltas :
         /\ Priced("calculate_option_delta", o, kind, call, put,
                   calculate_option_delta(kind, call, put))
         /\ \E run \in ClockRuns(1) :
              Clocked(run, <<Read("calculate_option_delta", "harness", o, run[1])>>)
    /\ UNCHANGED <<horizon, pc, idx, book, positions, orders, nextId, venueEvents, stock_value,
                   theoretical_value, uq, hg, hd, hv, stages, error>>

CallTimeToDate ==
    /\ pc = "pure"
    /\ cycle < MaxCalls
    /\ cycle' = cycle + 1
    /\ \E expiry_date \in Timestamps, current_time \in Timestamps :
         log' = <<[op |-> "calculate_time_to_date", by |-> "harness",
                   expiry_date |-> expiry_date, current_time |-> current_time,
                   outcome |-> "returned",
                   value |-> calculate_time_to_date(expiry_date, current_time)]>>
    /\ UNCHANGED <<horizon, pc, idx, book, positions, orders, nextId, venueEvents, stock_value,
                   theoretical_value, uq, hg, hd, hv, stages, error, now, reads>>

NextPure == CallOptionValue \/ CallOptionDelta \/ CallTimeToDate

SpecPure == InitPure /\ [][NextPure]_vars

\* ---------------------------------------------------------------------
\* update_quotes called as the trade loop calls it, on cheap options

\* <<theoretical_value, call vega>> the trade loop can pass: an ordinary
\* option, options worth less than a tick, and an option worth less than its
\* vega
LowPrices == { <<Dec(5237, 100), Dec(120, 100)>>,
               <<Dec(5, 100),    FZero>>,
               <<Dec(5, 100),    Dec(1, 100)>>,
               <<FromInt(1),     Dec(120, 100)>> }

CallLowQuotes ==
    /\ pc = "harness"
    /\ cycle < MaxCalls
    /\ cycle' = cycle + 1
    /\ \E option_id \in Options, p \in LowPrices :
         Requote(update_quotes(option_id, p[1], p[2],
                               LoopVolume, LoopPositionLimit, LoopTickSize))
    /\ UNCHANGED <<horizon, now, reads, hv, pc, idx, book, positions, venueEvents, stock_value,
                   theoretical_value, hg, hd, stages, error>>

SpecLow == InitQuote /\ [][CallLowQuotes]_vars

\* ---------------------------------------------------------------------
\* Venue calls that fail

\* the calls of a step up to and including its first venue call
UpToFirstVenueCall ==
    CASE pc = "start" ->
           <<Call("get_last_price_book", "get_midpoint_value", STOCK_ID)>>
      [] pc = "quote" ->
           <<Call("calculate_theoretical_option_value", "trade_loop", Chain[idx]),
             Call("call_vega", "trade_loop", Chain[idx]),
             Call("poll_new_trades", "update_quotes", Chain[idx])>>
      [] pc \in {"hedge_delta_1", "hedge_delta_2"} ->
           <<Call("get_positions", "hedge_delta_position", STOCK_ID)>>
      [] pc = "gamma_total" ->
           <<Call("get_positions", "hedge_gamma_position", STOCK_ID)>>
      [] pc = "gamma_insert" ->
           GammaReads(Chain[idx])

\* the first venue call of the next step raises; no call of the program is
\* inside a try statement, so the exception leaves the trade loop
VenueFailure ==
    /\ pc \in {"start", "quote", "hedge_delta_1", "hedge_delta_2", "gamma_total", "gamma_insert"}
    /\ pc = "start" => cycle < MaxCycles
    /\ cycle' = IF pc = "start" THEN cycle + 1 ELSE cycle
    /\ log' = IF pc = "start" THEN UpToFirstVenueCall ELSE log \o UpToFirstVenueCall
    /\ stages' = IF pc = "start" THEN <<>> ELSE stages
    /\ pc' = "halted"
    /\ error' = "VenueError"
    /\ UNCHANGED <<horizon, now, reads, hv, idx, book, positions, orders, nextId, venueEvents, stock_value,
                   theoretical_value, uq, hg, hd>>

NextFaulty == Next \/ VenueFailure

SpecFaulty == Init /\ [][NextFaulty]_vars

\* ---------------------------------------------------------------------
\* Properties

Inserted(by) == {i \in 1..Len(log) : log[i].op = "insert_order" /\ log[i].by = by}

Side(S, side) == {r \in S : r.side = side}

Submitted(side) == {i \in 1..Len(uq.submitted) : uq.submitted[i].side = side}

FAbs(x) == [x EXCEPT !.sgn = 1]

\* C1: update_quotes submits a bid only with a volume v, 1 <= v <= V and
\* P + v <= L, and an ask only with a volume v, 1 <= v <= V and P - v >= -L,
\* for the position P it read, the limit L and the target volume V it was
\* given; a side whose computed volume min(V, L - P), min(V, L + P) is not
\* positive gets no order, any other side gets exactly one.
C1_QuoteVolumesWithinLimit ==
    /\ \A i \in Inserted("update_quotes") :
         /\ IsWhole(log[i].volume)
         /\ 1 <= int(log[i].volume)
         /\ int(log[i].volume) <= log[i].ctx.volume
         /\ log[i].side = "bid" =>
              log[i].ctx.position + int(log[i].volume) <= log[i].ctx.position_limit
         /\ log[i].side = "ask" =>
              log[i].ctx.position - int(log[i].volume) >= -log[i].ctx.position_limit
    /\ uq.ran =>
         /\ Cardinality(Submitted("bid")) =
              (IF Min(uq.volume, uq.position_limit - uq.position) > 0 THEN 1 ELSE 0)
         /\ Cardinality(Submitted("ask")) =
              (IF Min(uq.volume, uq.position_limit + uq.position) > 0 THEN 1 ELSE 0)

\* the example of C1: P = 98, L = 100, V = 5 gives a bid of 2 and an ask of 5
C1_BidClippedToTwo ==
    /\ uq.ran
    /\ uq.position = 98 /\ uq.position_limit = 100 /\ uq.volume = 5
    /\ \E i \in Submitted("bid") : int(uq.submitted[i].volume) = 2
    /\ \E i \in Submitted("ask") : int(uq.submitted[i].volume) = 5

PositionIfFilled(c) ==
    IF c.side = "bid" THEN FAdd(FromInt(c.ctx.position), c.volume)
    ELSE FSub(FromInt(c.ctx.position), c.volume)

\* C2: every order hedge_delta_position or hedge_gamma_position submits that
\* the venue can fill (a positive volume), if filled in full, leaves the
\* absolute position of its instrument at most the position limit of 100,
\* measured against the position the function read when it sized the order.
C2_HedgeOrdersWithinLimit ==
    \A i \in Inserted("hedge_delta_position") \cup Inserted("hedge_gamma_position") :
        Accepted(log[i]) => Leq(FAbs(PositionIfFilled(log[i])), FromInt(HedgeLimit))

\* C3 as stated: an option never has more than one resting bid and one
\* resting ask.
C3_OneBidOneAskPerOption ==
    \A o \in Options :
        /\ Cardinality(Side(Outstanding(o), "bid")) <= 1
        /\ Cardinality(Side(Outstanding(o), "ask")) <= 1

By(S, by) == {r \in S : r.by = by}

\* C3: an option never has more than one resting bid and one resting ask
\* placed by update_quotes, and besides them at most one resting order of
\* hedge_gamma_position, which is an ask: at most one bid and two asks.
C3_OneQuotePerSideAndOneGammaAsk ==
    \A o \in Options :
        /\ Cardinality(Side(By(Outstanding(o), "update_quotes"), "bid")) <= 1
        /\ Cardinality(Side(By(Outstanding(o), "update_quotes"), "ask")) <= 1
        /\ Cardinality(By(Outstanding(o), "hedge_gamma_position")) <= 1
        /\ Side(By(Outstanding(o), "hedge_gamma_position"), "bid") = {}
        /\ Outstanding(o) = By(Outstanding(o), "update_quotes")
                            \cup By(Outstanding(o), "hedge_gamma_position")

\* an option with its two quotes and the ask of hedge_gamma_position resting
C3_TwoRestingAsks ==
    \E o \in Options :
        /\ Cardinality(Side(Outstanding(o), "bid")) = 1
        /\ Cardinality(Side(Outstanding(o), "ask")) = 2

\* C4: a run of hedge_delta_position that reaches its branches submits, when
\* the aggregate delta is negative, exactly one order, an immediate-or-cancel
\* bid on the underlying at the best ask it read; when it is positive,
\* exactly one order, an immediate-or-cancel ask on the underlying at the
\* best bid it read; when it is zero, no order.  A run that ends before its
\* branches submits no order.
C4_DeltaHedgeSideFollowsSign ==
    hd.ran =>
      /\ hd.crashed => hd.submitted = <<>>
      /\ ~hd.crashed /\ hd.ctx.Total_aggregate_delta_position.sgn < 0 =>
           /\ Len(hd.submitted) = 1
           /\ hd.submitted[1].instrument_id = STOCK_ID
           /\ hd.submitted[1].side = "bid"
           /\ hd.submitted[1].order_type = "ioc"
           /\ hd.submitted[1].price = hd.ctx.order_book.asks[1]
      /\ ~hd.crashed /\ hd.ctx.Total_aggregate_delta_position.sgn > 0
         /\ ~IsZero(hd.ctx.Total_aggregate_delta_position) =>
           /\ Len(hd.submitted) = 1
           /\ hd.submitted[1].instrument_id = STOCK_ID
           /\ hd.submitted[1].side = "ask"
           /\ hd.submitted[1].order_type = "ioc"
           /\ hd.submitted[1].price = hd.ctx.order_book.bids[1]
      /\ ~hd.crashed /\ IsZero(hd.ctx.Total_aggregate_delta_position) =>
           hd.submitted = <<>>

\* a run with a negative aggregate delta that bought the underlying
C4_BuyOnNegativeDelta ==
    /\ hd.ran /\ ~hd.crashed
    /\ hd.ctx.Total_aggregate_delta_position.sgn < 0
    /\ Len(hd.submitted) = 1
    /\ hd.submitted[1].side = "bid"
    /\ Accepted(hd.submitted[1])

\* |position(stock) - H| with H == number_of_stocks
DistanceToHedge(c) == FAbs(FSub(FromInt(c.position), c.number_of_stocks))

WithinHedgeBound(d) == Leq(FromInt(1), d) /\ Leq(d, FromInt(HedgeLimit))

\* C5: in the buy branch of hedge_delta_position (aggregate delta < 0), with
\* H = -position(stock) * delta(last option of the chain), the submitted
\* volume is non-zero only when 1 <= |position(stock) - H| <= 100, and is
\* exactly zero when that bound is violated.
C5_BuyVolumeZeroOutsideBound ==
    hd.ran /\ ~hd.crashed /\ hd.ctx.Total_aggregate_delta_position.sgn < 0 =>
      (~IsZero(hd.submitted[1].volume) => WithinHedgeBound(DistanceToHedge(hd.ctx)))

\* C6: in a cycle whose first read finds the midpoint unavailable, the only
\* call made is that read: no pricing call, no delete_order, no insert_order,
\* no hedging stage; the loop is at its top again, not halted.
C6_UnavailableMidpointSkipsCycle ==
    cycle > 0 /\ stock_value = None =>
      /\ log = <<Call("get_last_price_book", "get_midpoint_value", STOCK_ID)>>
      /\ stages = <<>>
      /\ pc = "start"
      /\ error = ""

\* a second cycle entered after the first one was skipped
C6_CycleAfterSkip ==
    /\ cycle = 2 /\ pc = "start"
    /\ stock_value = None
    /\ uq = NoRun /\ hd = NoRun
    /\ orders = {}

\* C7: an empty bid or ask side of the underlying's book, at any book read
\* of a cycle, never halts the control loop.
C7_EmptyBookNeverFatal == pc # "halted" /\ error = ""

\* the places of a stage sequence where delta, gamma and vega follow in order
InOrder(s) == {t \in (1..Len(s)) \X (1..Len(s)) \X (1..Len(s)) :
                 /\ t[1] < t[2] /\ t[2] < t[3]
                 /\ s[t[1]] = "delta" /\ s[t[2]] = "gamma" /\ s[t[3]] = "vega"}

\* C8: a cycle that is not skipped has, when it ends, run the delta-hedge,
\* then the gamma-hedge, then the vega stage.
C8_ThreeStagesInOrder == pc = "sleep" => InOrder(stages) # {}

Requotes == {i \in 1..Len(log) : log[i].by = "update_quotes"}

HedgeOrders == Inserted("hedge_delta_position") \cup Inserted("hedge_gamma_position")

\* C9: within one cycle the venue calls of update_quotes come option by
\* option in the order of the chain, those of one option all before those of
\* the next, and every hedging order comes after every call of update_quotes,
\* with every option of the chain requoted before it.
C9_RequoteInChainOrderBeforeHedging ==
    /\ \A i, j \in Requotes :
         i < j => ChainIndex(log[i].instrument_id) <= ChainIndex(log[j].instrument_id)
    /\ \A j \in HedgeOrders :
         /\ \A i \in Requotes : i < j
         /\ \A o \in Options :
              \E i \in Requotes : log[i].instrument_id = o /\ log[i].op = "get_positions"

\* a cycle that requoted the chain and then submitted hedging orders
C9_HedgedAfterRequoting ==
    /\ pc = "sleep"
    /\ Inserted("hedge_gamma_position") # {}
    /\ Inserted("hedge_delta_position") # {}
    /\ \A o \in Options : \E i \in Inserted("update_quotes") : log[i].instrument_id = o

\* the integer nearest to price / tick_size
NearestTick(q) == floor(FAdd(q, Dec(1, 2)))

\* price is the product of an integer and tick_size
OnTickGrid(price, tick_size) ==
    FMul(FromInt(NearestTick(FDiv(price, tick_size))), tick_size) = price

\* bid <= x < bid + tick
BracketsFromBelow(bid, x, tick_size) == Leq(bid, x) /\ Less(x, FAdd(bid, tick_size))

\* ask - tick < y <= ask
BracketsFromAbove(ask, y, tick_size) == Less(FSub(ask, tick_size), y) /\ Leq(y, ask)

\* C10: the bid price of update_quotes is a multiple of the tick size with
\* bid <= theoretical - credit < bid + tick, its ask price is a multiple of
\* the tick size with ask - tick < theoretical + credit <= ask, and the
\* spread ask - bid is at least twice the credit.
C10_TickRoundingBracketsPrice ==
    uq.ran =>
      /\ OnTickGrid(uq.bid_price, uq.tick_size)
      /\ OnTickGrid(uq.ask_price, uq.tick_size)
      /\ BracketsFromBelow(uq.bid_price, FSub(uq.theoretical_price, uq.credit), uq.tick_size)
      /\ BracketsFromAbove(uq.ask_price, FAdd(uq.theoretical_price, uq.credit), uq.tick_size)
      /\ Leq(FMul(FromInt(2), uq.credit), FSub(uq.ask_price, uq.bid_price))

\* the <<side, price, volume>> of the orders of a set
QuoteSet(S) == {<<r.side, r.price, r.volume>> : r \in S}

SameArguments(a, b) ==
    /\ a.option_id = b.option_id
    /\ a.theoretical_price = b.theoretical_price /\ a.credit = b.credit
    /\ a.volume = b.volume /\ a.position_limit = b.position_limit
    /\ a.tick_size = b.tick_size

\* a step that is a call of update_quotes repeating the previous call: the
\* same arguments, the same position read, every order of the previous call
\* still resting
RepeatsCall ==
    /\ uq.ran /\ cycle' = cycle + 1
    /\ SameArguments(uq, uq')
    /\ uq'.position = uq.position
    /\ Cardinality(Outstanding(uq.option_id)) = Len(uq.submitted)

\* C11: a call of update_quotes that repeats the previous call on the same
\* option (identical arguments, unchanged position, no fill in between)
\* leaves resting orders of the same <<side, price, volume>> as the first
\* call left, as many as it left, every order of the first call deleted.
C11_RepeatedCallLeavesSameQuotes ==
    [][RepeatsCall =>
         /\ QuoteSet({r \in orders' : r.instrument_id = uq.option_id})
              = QuoteSet(Outstanding(uq.option_id))
         /\ Cardinality({r \in orders' : r.instrument_id = uq.option_id})
              = Cardinality(Outstanding(uq.option_id))
         /\ Outstanding(uq.option_id) \cap orders' = {}
         /\ \A r \in Outstanding(uq.option_id) :
              \E i \in 1..Len(log') : /\ log'[i].op = "delete_order"
                                       /\ log'[i].order_id = r.order_id]_vars

\* a call that pulled a bid and an ask equal to the two it then inserted
C11_PulledWhatItInserts ==
    /\ uq.ran
    /\ Len(uq.pulled) = 2
    /\ QuoteSet({uq.pulled[i] : i \in 1..Len(uq.pulled)})
         = QuoteSet({uq.submitted[i] : i \in 1..Len(uq.submitted)})
    /\ Cardinality(Outstanding(uq.option_id)) = 2

\* C12: a venue call that fails during a cycle does not halt the control
\* loop.
C12_VenueFailureContained == ~(pc = "halted" /\ error = "VenueError")

\* the insert_order calls of the hedging functions, in the order made
RECURSIVE HedgeSequence(_)
HedgeSequence(n) ==
    IF n = 0 THEN <<>>
    ELSE IF n \in HedgeOrders THEN Append(HedgeSequence(n - 1), log[n])
    ELSE HedgeSequence(n - 1)

IsDeltaOrder(c) == c.by = "hedge_delta_position" /\ c.instrument_id = STOCK_ID

IsGammaSell(c, option_id) ==
    /\ c.by = "hedge_gamma_position"
    /\ c.instrument_id = option_id
    /\ c.side = "ask" /\ c.order_type = "limit"
    /\ c.price = c.ctx.order_book.asks[1]

\* s is: at most one delta-hedge order, one sell per option in chain order,
\* at most one delta-hedge order; first and second say which are there
Shaped(s, first, second) ==
    /\ Len(s) = first + Len(Chain) + second
    /\ first = 1 => IsDeltaOrder(s[1])
    /\ \A k \in 1..Len(Chain) : IsGammaSell(s[first + k], Chain[k])
    /\ second = 1 => IsDeltaOrder(s[Len(s)])

\* C17: a completed call of hedge_gamma_position has made its insert_order
\* calls in this order: the order (if any) of the first delta-hedge run, then
\* exactly one limit sell per option of the chain, in chain order, each at
\* the best ask of the underlying read for it, then the order (if any) of the
\* second delta-hedge run.
C17_GammaHedgeOrderSequence ==
    pc = "sleep" =>
      \E first \in {0, 1}, second \in {0, 1} : Shaped(HedgeSequence(Len(log)), first, second)

\* a completed call with both delta-hedge orders around the sells, the book
\* of the underlying having moved between two of its orders
C17_DeltaSellsDelta ==
    /\ pc = "sleep"
    /\ Shaped(HedgeSequence(Len(log)), 1, 1)
    /\ \E i, j \in HedgeOrders : log[i].ctx.order_book # log[j].ctx.order_book

\* the aggregate delta after a full fill of the order of a run
DeltaAfterFill(o) ==
    IF o.side = "bid" THEN FAdd(o.ctx.Total_aggregate_delta_position, o.volume)
    ELSE FSub(o.ctx.Total_aggregate_delta_position, o.volume)

\* C18: when hedge_delta_position submits an order of a positive volume, the
\* absolute aggregate delta after a full fill of it is no larger than the
\* absolute aggregate delta the order was computed from.
C18_DeltaHedgeReducesExposure ==
    hd.ran /\ hd.submitted # <<>> /\ Accepted(hd.submitted[1]) =>
      Leq(FAbs(DeltaAfterFill(hd.submitted[1])),
          FAbs(hd.ctx.Total_aggregate_delta_position))

\* C20: the volume of every insert_order call of update_quotes,
\* hedge_delta_position and hedge_gamma_position is at least zero.
C20_VolumesNeverNegative ==
    \A i \in 1..Len(log) : log[i].op = "insert_order" => log[i].volume.sgn > 0

NonPositive(T) == IsZero(T) \/ T.sgn < 0

\* C13: an option whose time to expiry is zero or negative when the cycle
\* evaluates it is left out of the cycle: no Black-Scholes call is made with
\* that time to expiry, and update_quotes is not called for the option.
C13_ExpiredOptionExcluded ==
    \A i \in 1..Len(reads) :
        /\ ~NonPositive(reads[i].T)
        /\ reads[i].by = "trade_loop" /\ NonPositive(reads[i].T) =>
             ~(uq.ran /\ uq.option_id = reads[i].instrument_id)

\* C14: the Black-Scholes quantities computed for one option within one
\* decision (one requote, one hedging stage's evaluation) all use the same
\* time to expiry, also when the clock moves during the decision.
C14_OneTimeToExpiryPerDecision ==
    \A i \in 1..Len(reads) : \A j \in 1..Len(reads) :
        reads[i].instrument_id = reads[j].instrument_id => reads[i].T = reads[j].T

IsPricing(c) == c.op \in {"calculate_theoretical_option_value", "calculate_option_delta"}

\* C16: called with an option kind that is neither CALL nor PUT,
\* calculate_option_delta and calculate_theoretical_option_value end in an
\* error, and return neither the call's nor the put's number.
C16_OtherKindEndsInError ==
    \A i \in 1..Len(log) :
        IsPricing(log[i]) /\ log[i].option_kind \notin {"CALL", "PUT"} =>
            /\ log[i].outcome \in {"UnboundLocalError", "Exception"}
            /\ log[i].value \notin {log[i].call, log[i].put}

\* calculate_theoretical_option_value has been called with another kind and
\* has ended in an error
C16_ValueOfOtherKindRaised ==
    /\ log # <<>>
    /\ log[1].op = "calculate_theoretical_option_value"
    /\ log[1].option_kind = "OTHER"
    /\ log[1].outcome = "UnboundLocalError"

\* exact product of two dyadic rationals
DyMul(x, y) == Canon(x.sgn * y.sgn, BMul(x.man, y.man), x.exp + y.exp)

\* the microseconds of a year of 365 days
YearMicros == DyMul(OneDay, FromInt(365))

\* a is later than b
Later(a, b) ==
    \/ a.days > b.days
    \/ a.days = b.days /\ a.seconds > b.seconds
    \/ a.days = b.days /\ a.seconds = b.seconds /\ a.microseconds > b.microseconds

SignOfFloat(x) == IF IsZero(x) THEN 0 ELSE x.sgn

Scaled(x, k) == IF IsZero(x) THEN x ELSE [x EXCEPT !.exp = @ + k]

\* years * 365 days differs from the elapsed time by at most the rounding of
\* the two float divisions, 2^-51 of the elapsed time
WithinRounding(years, elapsed) ==
    DyCmp(FAbs(Scaled(Exact(DyAdd(DyMul(years, YearMicros), FNeg(elapsed))), 51)),
          FAbs(elapsed)) <= 0

\* C19: calculate_time_to_date(expiry, reference) is the time from reference
\* to expiry in days divided by 365, as a float: negative exactly when
\* reference is after expiry, zero exactly when they are equal, positive
\* otherwise.
C19_TimeToDateIsDaysOver365 ==
    \A i \in 1..Len(log) :
        log[i].op = "calculate_time_to_date" =>
            /\ WithinRounding(log[i].value, timedelta_sub(log[i].expiry_date, log[i].current_time))
            /\ SignOfFloat(log[i].value) =
                 (IF Later(log[i].expiry_date, log[i].current_time) THEN 1
                  ELSE IF log[i].expiry_date = log[i].current_time THEN 0 ELSE -1)

\* calculate_time_to_date has returned a negative number for a reference one
\* microsecond after the expiry
C19_NegativeByOneMicrosecond ==
    /\ log # <<>>
    /\ log[1].op = "calculate_time_to_date"
    /\ log[1].expiry_date.days = log[1].current_time.days
    /\ log[1].expiry_date.seconds = log[1].current_time.seconds
    /\ log[1].current_time.microseconds = log[1].expiry_date.microseconds + 1
    /\ log[1].value.sgn < 0
    /\ ~IsZero(log[1].value)

\* C21: every limit bid that update_quotes submits has a price above zero,
\* for every theoretical price that is not negative and every credit the
\* trade loop can pass.
C21_BidPricesPositive ==
    uq.ran =>
        \A i \in Submitted("bid") :
            uq.submitted[i].price.sgn > 0 /\ ~IsZero(uq.submitted[i].price)

====
